---- MODULE Spec2Model ----
(***************************************************************************)
(* Weather lookup widget (src/src/App.js): the forecast aggregator         *)
(* buildDaily and the search/view controller App with its fetchWeather,    *)
(* onSubmit, unit toggle and the effect that refetches on a unit change.   *)
(***************************************************************************)
EXTENDS Integers, Sequences, FiniteSets

VARIABLES
    API_KEY,    \* what the identifier API_KEY read by fetchWeather evaluates to
    query,      \* useState("")        text of the search input, a sequence of characters
    units,      \* useState("metric")
    now,        \* useState(null)      body of the current-conditions response
    days,       \* useState([])        daily summaries
    loading,    \* useState(false)
    errorMsg,   \* useState("")
    lastCity,   \* useState("")        a sequence of characters
    attempts,   \* the calls of fetchWeather that reached Promise.all, oldest first
    issued,     \* number of axios.get calls made so far
    list,       \* input of buildDaily in the aggregator specifications
    daily       \* buildDaily(list)

vars == <<API_KEY, query, units, now, days, loading, errorMsg, lastCity,
          attempts, issued, list, daily>>

ctlVars == <<API_KEY, query, units, now, days, loading, errorMsg, lastCity,
             attempts, issued>>

-----------------------------------------------------------------------------
(* Bounds of the model *)

MaxAttempts == 2
MaxRaceAttempts == 3
MaxLen == 6
MaxGroupLen == 3

-----------------------------------------------------------------------------
(* Forecast aggregator: buildDaily *)

Noon == 12
MaxDays == 5

\* A forecast sample. dt_txt is "YYYY-MM-DD HH:MM:SS": the pair of its date
\* (a day number) and its hour. Temperatures are in tenths of a degree.
Item(d, h, tmin, tmax, w) ==
    [dt_txt |-> <<d, h>>, temp_min |-> tmin, temp_max |-> tmax, weather |-> w]

\* item.dt_txt.split(" ")[0]
DateOf(item) == item.dt_txt[1]

\* new Date(item.dt_txt).getHours()
HoursOf(item) == item.dt_txt[2]

Abs(x) == IF x < 0 THEN -x ELSE x

\* Math.round on a value given in tenths: nearest integer, halves towards +infinity
Round(x) == (x + 5) \div 10

RECURSIVE SeqMin(_)
SeqMin(s) ==
    IF Len(s) = 1 THEN s[1]
    ELSE LET m == SeqMin(Tail(s)) IN IF s[1] < m THEN s[1] ELSE m

RECURSIVE SeqMax(_)
SeqMax(s) ==
    IF Len(s) = 1 THEN s[1]
    ELSE LET m == SeqMax(Tail(s)) IN IF s[1] > m THEN s[1] ELSE m

\* the keys of map after the forEach of lines 14-18: dates in first-seen order
RECURSIVE MapKeys(_)
MapKeys(l) ==
    IF l = <<>> THEN <<>>
    ELSE LET front == SubSeq(l, 1, Len(l) - 1)
             keys  == MapKeys(front)
             date  == DateOf(l[Len(l)])
         IN  IF \E k \in 1..Len(keys) : keys[k] = date THEN keys
             ELSE Append(keys, date)

\* map.get(date): the samples of that date, in input order
ItemsOf(l, date) == SelectSeq(l, LAMBDA it : DateOf(it) = date)

\* insertion of a date into a sequence sorted by date (stable)
RECURSIVE InsertSorted(_, _)
InsertSorted(s, d) ==
    IF s = <<>> THEN <<d>>
    ELSE IF d < Head(s) THEN <<d>> \o s
    ELSE <<Head(s)>> \o InsertSorted(Tail(s), d)

\* SortDates with the sort left out: the dates stay in first-seen order
KeepOrder(s) == s

\* [...map.entries()].sort((a,b) => new Date(a[0]) - new Date(b[0])), the keys
RECURSIVE SortDates(_)
SortDates(s) ==
    IF s = <<>> THEN <<>>
    ELSE InsertSorted(SortDates(SubSeq(s, 1, Len(s) - 1)), s[Len(s)])

\* Best with <= for <: among equally close samples the last one wins
RECURSIVE BestLastOnTie(_)
BestLastOnTie(items) ==
    IF Len(items) = 1 THEN items[1]
    ELSE LET best == BestLastOnTie(SubSeq(items, 1, Len(items) - 1))
             i    == items[Len(items)]
         IN  IF Abs(HoursOf(i) - Noon) <= Abs(HoursOf(best) - Noon) THEN i ELSE best

\* lines 24-29: the first sample strictly closer to noon than every earlier one
RECURSIVE Best(_)
Best(items) ==
    IF Len(items) = 1 THEN items[1]
    ELSE LET best == Best(SubSeq(items, 1, Len(items) - 1))
             i    == items[Len(items)]
         IN  IF Abs(HoursOf(i) - Noon) < Abs(HoursOf(best) - Noon) THEN i ELSE best

\* GroupMin taken from the representative sample alone
GroupMinOfBest(items) == Best(items).temp_min

\* Math.min(...items.map(i => i.main.temp_min))
GroupMin(items) == SeqMin([k \in 1..Len(items) |-> items[k].temp_min])

\* Math.max(...items.map(i => i.main.temp_max))
GroupMax(items) == SeqMax([k \in 1..Len(items) |-> items[k].temp_max])

\* the callback of .map at lines 21-31
Summary(date, items) ==
    [date |-> date,
     min  |-> Round(GroupMin(items)),
     max  |-> Round(GroupMax(items)),
     icon |-> Best(items).weather.icon,
     desc |-> Best(items).weather.main]

\* Slice without the cut at 5
SliceAll(s) == s

\* days.slice(0,5)
Slice(s) == SubSeq(s, 1, IF Len(s) < MaxDays THEN Len(s) ELSE MaxDays)

buildDaily(l) ==
    LET sorted == SortDates(MapKeys(l))
    IN  Slice([k \in 1..Len(sorted) |-> Summary(sorted[k], ItemsOf(l, sorted[k]))])

-----------------------------------------------------------------------------
(* Search/view controller: App *)

\* null: no current-conditions body
Null == [resp |-> 0, name |-> <<>>, units |-> ""]

MissingKeyMsg == "Missing OpenWeather API key in .env.local"
NotFoundMsg   == "City not found. Try another name."

\* The source declares apiKey (line 5) and reads API_KEY (lines 58, 63, 64).
\* Reading an identifier the module never declares gives the value of a
\* global of that name when the host defines one, a string or nothing, and
\* throws a ReferenceError otherwise.
KeyOutcomes == {"present", "absent", "undeclared"}

\* what the user can have typed into the input: nothing, blanks, and two
\* city names with and without blanks around them
Queries ==
    {<<>>, <<" ">>, <<" ", " ">>, <<"a">>, <<" ", "a">>, <<"a", " ">>, <<"a", "a">>}

\* String.prototype.trim
RECURSIVE TrimStart(_)
TrimStart(s) ==
    IF s # <<>> /\ Head(s) = " " THEN TrimStart(Tail(s)) ELSE s

RECURSIVE TrimEnd(_)
TrimEnd(s) ==
    IF s # <<>> /\ s[Len(s)] = " " THEN TrimEnd(SubSeq(s, 1, Len(s) - 1)) ELSE s

Trim(s) == TrimEnd(TrimStart(s))

Flip(u) == IF u = "metric" THEN "imperial" ELSE "metric"

Clear == [icon |-> "01d", main |-> "Clear"]
Rain  == [icon |-> "10d", main |-> "Rain"]

\* f.data of a forecast response: a body with a list of samples, or one without
Body(l) == [hasList |-> TRUE, list |-> l]

Malformed == [hasList |-> FALSE, list |-> <<>>]

ForecastA ==
    <<Item(2, 9, 96, 104, Rain), Item(1, 21, -15, 20, Clear), Item(2, 12, 104, 125, Clear)>>

ForecastB == <<Item(1, 15, 181, 203, Rain)>>

Payloads == {Malformed, Body(ForecastA), Body(ForecastB)}

\* w.data of the current-conditions response to the requests of attempt i
WeatherData(i, city, unit) == [resp |-> i, name |-> city, units |-> unit]

Pending(i) == attempts[i].done = "pending"

AnyPending == \E i \in 1..Len(attempts) : Pending(i)

\* StartAttempt without setErrorMsg(""): the earlier message stays
StartAttemptKeepError(city, unit) ==
    /\ loading' = TRUE
    /\ UNCHANGED errorMsg
    /\ attempts' =
         Append([i \in 1..Len(attempts) |->
                    IF Pending(i) THEN [attempts[i] EXCEPT !.overlapped = TRUE]
                    ELSE attempts[i]],
                [city |-> city, unit |-> unit, w |-> "pending", f |-> "pending",
                 fdata |-> Malformed, done |-> "pending", overlapped |-> AnyPending])
    /\ issued' = issued + 2

\* StartAttempt with the forecast request left out
StartAttemptOneRequest(city, unit) ==
    /\ loading' = TRUE
    /\ errorMsg' = ""
    /\ attempts' =
         Append([i \in 1..Len(attempts) |->
                    IF Pending(i) THEN [attempts[i] EXCEPT !.overlapped = TRUE]
                    ELSE attempts[i]],
                [city |-> city, unit |-> unit, w |-> "pending", f |-> "pending",
                 fdata |-> Malformed, done |-> "pending", overlapped |-> AnyPending])
    /\ issued' = issued + 1

\* StartAttempt without setLoading(true)
StartAttemptNoLoading(city, unit) ==
    /\ UNCHANGED loading
    /\ errorMsg' = ""
    /\ attempts' =
         Append([i \in 1..Len(attempts) |->
                    IF Pending(i) THEN [attempts[i] EXCEPT !.overlapped = TRUE]
                    ELSE attempts[i]],
                [city |-> city, unit |-> unit, w |-> "pending", f |-> "pending",
                 fdata |-> Malformed, done |-> "pending", overlapped |-> AnyPending])
    /\ issued' = issued + 2

\* lines 60-65: setLoading(true); setErrorMsg(""); both axios.get calls.
\* overlapped is history: whether another attempt was pending at any time
\* while this one was.
StartAttempt(city, unit) ==
    /\ loading' = TRUE
    /\ errorMsg' = ""
    /\ attempts' =
         Append([i \in 1..Len(attempts) |->
                    IF Pending(i) THEN [attempts[i] EXCEPT !.overlapped = TRUE]
                    ELSE attempts[i]],
                [city |-> city, unit |-> unit, w |-> "pending", f |-> "pending",
                 fdata |-> Malformed, done |-> "pending", overlapped |-> AnyPending])
    /\ issued' = issued + 2

\* fetchWeather(city, unit) up to its await
fetchWeather(city, unit) ==
    /\ UNCHANGED <<now, days, lastCity>>
    /\ IF API_KEY = "undeclared"
         THEN UNCHANGED <<loading, errorMsg, attempts, issued>>
       ELSE IF API_KEY = "absent"
         THEN errorMsg' = MissingKeyMsg /\ UNCHANGED <<loading, attempts, issued>>
       ELSE IF city = <<>>
         THEN UNCHANGED <<loading, errorMsg, attempts, issued>>
       ELSE StartAttempt(city, unit)

\* OnSuccess without setDays: the summaries of the earlier attempt stay
OnSuccessNowOnly(a) ==
    /\ now' = WeatherData(a.resp, a.city, a.unit)
    /\ lastCity' = a.city
    /\ loading' = FALSE
    /\ UNCHANGED <<days, errorMsg>>

\* lines 66-68 and the finally of line 72
OnSuccess(a) ==
    /\ now' = WeatherData(a.resp, a.city, a.unit)
    /\ days' = buildDaily(a.list)
    /\ lastCity' = a.city
    /\ loading' = FALSE
    /\ UNCHANGED errorMsg

\* OnFailure without setDays([]): the summaries on display stay
OnFailureKeepDays ==
    /\ now' = Null
    /\ errorMsg' = NotFoundMsg
    /\ loading' = FALSE
    /\ UNCHANGED <<days, lastCity>>

\* lines 69-72
OnFailure ==
    /\ now' = Null
    /\ days' = <<>>
    /\ errorMsg' = NotFoundMsg
    /\ loading' = FALSE
    /\ UNCHANGED lastCity

\* Settle with Promise.race for Promise.all: the first answer settles
SettleOnFirst(i, att) ==
    IF att.w = "fail" \/ att.f = "fail"
      THEN /\ OnFailure
           /\ attempts' = [attempts EXCEPT ![i] = [att EXCEPT !.done = "error"]]
      ELSE /\ OnSuccess([resp |-> i, city |-> att.city, unit |-> att.unit,
                         list |-> att.fdata.list])
           /\ attempts' = [attempts EXCEPT ![i] = [att EXCEPT !.done = "success"]]

\* Settle with a request token: the result of an attempt that is not the
\* latest one is dropped
SettleLatestOnly(i, att) ==
    IF att.w = "fail" \/ att.f = "fail" \/ (att.w = "ok" /\ att.f = "ok" /\ ~att.fdata.hasList)
      THEN /\ attempts' = [attempts EXCEPT ![i] = [att EXCEPT !.done = "error"]]
           /\ IF i = Len(attempts) THEN OnFailure
              ELSE UNCHANGED <<now, days, loading, errorMsg, lastCity>>
    ELSE IF att.w = "ok" /\ att.f = "ok"
      THEN /\ attempts' = [attempts EXCEPT ![i] = [att EXCEPT !.done = "success"]]
           /\ IF i = Len(attempts)
                THEN OnSuccess([resp |-> i, city |-> att.city, unit |-> att.unit,
                                list |-> att.fdata.list])
                ELSE UNCHANGED <<now, days, loading, errorMsg, lastCity>>
    ELSE /\ attempts' = [attempts EXCEPT ![i] = att]
         /\ UNCHANGED <<now, days, loading, errorMsg, lastCity>>

\* Settle without the catch and the finally: a rejection leaves the attempt
\* where it is
SettleSuccessOnly(i, att) ==
    IF att.w = "ok" /\ att.f = "ok" /\ att.fdata.hasList
      THEN /\ OnSuccess([resp |-> i, city |-> att.city, unit |-> att.unit,
                         list |-> att.fdata.list])
           /\ attempts' = [attempts EXCEPT ![i] = [att EXCEPT !.done = "success"]]
      ELSE /\ attempts' = [attempts EXCEPT ![i] = att]
           /\ UNCHANGED <<now, days, loading, errorMsg, lastCity>>

\* the continuation of fetchWeather after Promise.all of attempt i settles
\* with the requests in the states att.w and att.f
Settle(i, att) ==
    IF att.w = "fail" \/ att.f = "fail"
      THEN /\ OnFailure
           /\ attempts' = [attempts EXCEPT ![i] = [att EXCEPT !.done = "error"]]
    ELSE IF att.w = "ok" /\ att.f = "ok"
      THEN IF ~att.fdata.hasList
             THEN /\ OnFailure
                  /\ attempts' = [attempts EXCEPT ![i] = [att EXCEPT !.done = "error"]]
             ELSE /\ OnSuccess([resp |-> i, city |-> att.city, unit |-> att.unit,
                                list |-> att.fdata.list])
                  /\ attempts' = [attempts EXCEPT ![i] = [att EXCEPT !.done = "success"]]
    ELSE /\ attempts' = [attempts EXCEPT ![i] = att]
         /\ UNCHANGED <<now, days, loading, errorMsg, lastCity>>

Init ==
    /\ API_KEY \in KeyOutcomes
    /\ query = <<>>
    /\ units = "metric"
    /\ now = Null
    /\ days = <<>>
    /\ loading = FALSE
    /\ errorMsg = ""
    /\ lastCity = <<>>
    /\ attempts = <<>>
    /\ issued = 0
    /\ list = <<>>
    /\ daily = <<>>

\* onChange of the input
SetQuery(q) ==
    /\ query' = q
    /\ UNCHANGED <<API_KEY, units, now, days, loading, errorMsg, lastCity,
                   attempts, issued, list, daily>>

\* onSubmit
Submit ==
    /\ fetchWeather(Trim(query), units)
    /\ UNCHANGED <<API_KEY, query, units, list, daily>>

\* UnitsEffect refetching under the units of the render before the toggle
UnitsEffectOldUnits(u) ==
    IF lastCity # <<>> THEN fetchWeather(lastCity, units)
    ELSE UNCHANGED <<now, days, loading, errorMsg, lastCity, attempts, issued>>

\* the effect of lines 78-81, run with the units of the render that follows
UnitsEffect(u) ==
    IF lastCity # <<>> THEN fetchWeather(lastCity, u)
    ELSE UNCHANGED <<now, days, loading, errorMsg, lastCity, attempts, issued>>

\* Toggle with the control rendered whether or not now is set
ToggleAlways ==
    /\ units' = Flip(units)
    /\ UnitsEffect(units')
    /\ UNCHANGED <<API_KEY, query, list, daily>>

\* onClick of the unit toggle, which is rendered only while now is set
Toggle ==
    /\ now # Null
    /\ units' = Flip(units)
    /\ UnitsEffect(units')
    /\ UNCHANGED <<API_KEY, query, list, daily>>

\* The current-conditions request of attempt i is answered with a body.
\* An answer to a request of an attempt whose Promise.all has already
\* rejected reaches no code of fetchWeather and is left out.
WeatherOk(i) ==
    /\ Pending(i) /\ attempts[i].w = "pending"
    /\ Settle(i, [attempts[i] EXCEPT !.w = "ok"])
    /\ UNCHANGED <<API_KEY, query, units, issued, list, daily>>

\* the forecast request of attempt i is answered with the body p
ForecastOk(i, p) ==
    /\ Pending(i) /\ attempts[i].f = "pending"
    /\ Settle(i, [attempts[i] EXCEPT !.f = "ok", !.fdata = p])
    /\ UNCHANGED <<API_KEY, query, units, issued, list, daily>>

\* one of the two requests of attempt i is rejected
WeatherFail(i) ==
    /\ Pending(i) /\ attempts[i].w = "pending"
    /\ Settle(i, [attempts[i] EXCEPT !.w = "fail"])
    /\ UNCHANGED <<API_KEY, query, units, issued, list, daily>>

ForecastFail(i) ==
    /\ Pending(i) /\ attempts[i].f = "pending"
    /\ Settle(i, [attempts[i] EXCEPT !.f = "fail"])
    /\ UNCHANGED <<API_KEY, query, units, issued, list, daily>>

\* the step keeps the number of fetch attempts within the bound
Bounded == Len(attempts') <= MaxAttempts

Next ==
    \/ \E q \in Queries : SetQuery(q)
    \/ Submit /\ Bounded
    \/ Toggle /\ Bounded
    \/ \E i \in 1..Len(attempts) : WeatherOk(i)
    \/ \E i \in 1..Len(attempts), p \in Payloads : ForecastOk(i, p)
    \/ \E i \in 1..Len(attempts) : WeatherFail(i)
    \/ \E i \in 1..Len(attempts) : ForecastFail(i)

Spec == Init /\ [][Next]_vars

\* The controller with one more attempt and fewer inputs: the user types
\* one city name, with a blank before it.
RaceQueries == {<<" ", "a">>}

BoundedRace == Len(attempts') <= MaxRaceAttempts

NextRace ==
    \/ \E q \in RaceQueries : SetQuery(q)
    \/ Submit /\ BoundedRace
    \/ Toggle /\ BoundedRace
    \/ \E i \in 1..Len(attempts) : WeatherOk(i)
    \/ \E i \in 1..Len(attempts), p \in Payloads : ForecastOk(i, p)
    \/ \E i \in 1..Len(attempts) : WeatherFail(i)
    \/ \E i \in 1..Len(attempts) : ForecastFail(i)

SpecRace == Init /\ [][NextRace]_vars

\* some request in flight is answered, one way or the other
Answer ==
    \E i \in 1..Len(attempts) :
        \/ WeatherFail(i)
        \/ WeatherOk(i)
        \/ ForecastFail(i)
        \/ \E p \in Payloads : ForecastOk(i, p)

\* the steps of the controller on the one city of RaceQueries, within
\* MaxAttempts fetch attempts
NextFair ==
    \/ \E q \in RaceQueries : SetQuery(q)
    \/ Submit /\ Bounded
    \/ Toggle /\ Bounded
    \/ \E i \in 1..Len(attempts) : WeatherOk(i)
    \/ \E i \in 1..Len(attempts), p \in Payloads : ForecastOk(i, p)
    \/ \E i \in 1..Len(attempts) : WeatherFail(i)
    \/ \E i \in 1..Len(attempts) : ForecastFail(i)

\* the network answers as long as a request is in flight
SpecFair == Init /\ [][NextFair]_vars /\ WF_vars(Answer)

-----------------------------------------------------------------------------
(* The aggregator on its own: buildDaily applied to every list of samples  *)
(* up to a length, built one sample at a time.                             *)

InitBD ==
    /\ API_KEY = "present"
    /\ query = <<>>
    /\ units = "metric"
    /\ now = Null
    /\ days = <<>>
    /\ loading = FALSE
    /\ errorMsg = ""
    /\ lastCity = <<>>
    /\ attempts = <<>>
    /\ issued = 0
    /\ list = <<>>
    /\ daily = buildDaily(<<>>)

\* one more sample in f.data.list, and the summaries of the longer list
Feed(item) ==
    /\ list' = Append(list, item)
    /\ daily' = buildDaily(list')
    /\ UNCHANGED ctlVars

\* samples that differ in their date only: one more date than a result holds
DateItems == {Item(d, Noon, 100, 200, Clear) : d \in 1..(MaxDays + 1)}

NextDates == \E item \in DateItems : Len(list) < MaxLen /\ Feed(item)

SpecDates == InitBD /\ [][NextDates]_vars

\* samples of two dates that differ in hour, temperatures and condition
Hours == {9, 10, 12, 14}

Temps == {<<96, 104>>, <<-15, 125>>}

GroupItems ==
    {Item(d, h, t[1], t[2], w) : d \in {1, 2}, h \in Hours, t \in Temps, w \in {Clear, Rain}}

NextGroup == \E item \in GroupItems : Len(list) < MaxGroupLen /\ Feed(item)

SpecGroup == InitBD /\ [][NextGroup]_vars

-----------------------------------------------------------------------------
(* Properties of the controller *)

Succeeded(i) == attempts[i].done = "success"

\* C1: in every reachable state, now and days either are both cleared or
\* both hold the results of one and the same successful fetch attempt.
C1_NowAndDaysTogether ==
    \/ now = Null /\ days = <<>>
    \/ \E i \in 1..Len(attempts) :
          /\ Succeeded(i)
          /\ now = WeatherData(i, attempts[i].city, attempts[i].unit)
          /\ days = buildDaily(attempts[i].fdata.list)

\* data of the second attempt on display, with a forecast of two days
C1_Witness ==
    /\ now # Null /\ now.resp = 2
    /\ Len(days) = 2
    /\ attempts[1].done # "pending"

\* a request of the pending attempt i fails in this step, or its forecast
\* body turns out to hold no list once both requests are answered
FailsNow(i) ==
    /\ Pending(i)
    /\ \/ attempts'[i].w = "fail"
       \/ attempts'[i].f = "fail"
       \/ attempts'[i].w = "ok" /\ attempts'[i].f = "ok" /\ ~attempts'[i].fdata.hasList

\* C2: a step in which a fetch attempt fails ends with now cleared, days
\* cleared and a non-empty error message, whatever was displayed before.
C2_FailureClears ==
    [][(\E i \in 1..Len(attempts) : FailsNow(i))
          => now' = Null /\ days' = <<>> /\ errorMsg' # ""]_vars

\* data was displayed by a successful attempt and a failure has cleared it
C2_Witness ==
    /\ now = Null /\ days = <<>> /\ errorMsg = NotFoundMsg
    /\ \E i \in 1..Len(attempts) : Succeeded(i) /\ attempts[i].fdata.list # <<>>

\* C3: a Submit whose trimmed query is empty changes no state variable and
\* issues no request, whether or not an API key is configured.
C3_EmptySubmitIsNoOp ==
    [][(Submit /\ Trim(query) = <<>>) => UNCHANGED vars]_vars

\* C4: with no API key configured, a Submit with a non-empty trimmed query
\* ends with a non-empty error message and loading false, and no request
\* is issued.
C4_MissingKeyIsError ==
    API_KEY # "present" =>
        /\ issued = 0
        /\ Trim(query) # <<>> =>
              ~ENABLED (Submit /\ ~(errorMsg' # "" /\ ~loading' /\ issued' = 0))

\* C5: a step that changes units flips them; with a city searched before
\* it starts exactly one attempt, two requests, for lastCity under the new
\* units; with none it issues no request.
C5_ToggleRefetches ==
    [][units' # units =>
          /\ units' = Flip(units)
          /\ IF lastCity # <<>>
               THEN /\ Len(attempts') = Len(attempts) + 1
                    /\ attempts'[Len(attempts')].city = lastCity
                    /\ attempts'[Len(attempts')].unit = units'
                    /\ attempts'[Len(attempts')].w = "pending"
                    /\ attempts'[Len(attempts')].f = "pending"
                    /\ issued' = issued + 2
               ELSE Len(attempts') = Len(attempts) /\ issued' = issued]_vars

\* the refetch started by a toggle after a successful search is in flight
C5_Witness ==
    /\ units = "imperial"
    /\ Len(attempts) = 2
    /\ Succeeded(1) /\ attempts[1].unit = "metric"
    /\ Pending(2) /\ attempts[2].unit = "imperial" /\ attempts[2].city = lastCity
    /\ issued = 4

\* attempt i has succeeded and the next state is the one fetchWeather leaves
SuccessAfter(i) ==
    /\ now' = WeatherData(i, attempts[i].city, attempts[i].unit)
    /\ days' = buildDaily(attempts'[i].fdata.list)
    /\ lastCity' = attempts[i].city
    /\ ~loading'
    /\ errorMsg' = ""

\* both requests of the pending attempt i are answered with a well-formed
\* body once this step is taken
SucceedsNow(i) ==
    /\ Pending(i)
    /\ attempts'[i].w = "ok" /\ attempts'[i].f = "ok" /\ attempts'[i].fdata.hasList

\* C10 as stated: when both requests of an attempt succeed and no other
\* attempt is in flight at that moment, the resulting state is Success.
C10_SuccessWhenAlone ==
    [][\A i \in 1..Len(attempts) :
          (SucceedsNow(i) /\ \A j \in 1..Len(attempts) : j # i => ~Pending(j))
             => SuccessAfter(i)]_vars

\* C10: when both requests of an attempt succeed and no other attempt was
\* in flight at any time between its start and this step, the resulting
\* state is Success, also when the state before the attempt was Error.
C10_SuccessWhenNeverOverlapped ==
    [][\A i \in 1..Len(attempts) :
          (SucceedsNow(i) /\ ~attempts[i].overlapped)
             => SuccessAfter(i)]_vars

\* the first attempt ended in Error, the second one, started afterwards,
\* has succeeded
C10_Witness ==
    /\ Len(attempts) = 2
    /\ attempts[1].done = "error"
    /\ Succeeded(2) /\ ~attempts[2].overlapped
    /\ now.resp = 2 /\ lastCity = attempts[2].city
    /\ ~loading /\ errorMsg = ""

\* the requests of attempt i, as the next state has them, let Promise.all
\* settle: one has failed or both are answered
JointlySettled(i) ==
    \/ attempts'[i].w = "fail"
    \/ attempts'[i].f = "fail"
    \/ attempts'[i].w = "ok" /\ attempts'[i].f = "ok"

\* C11 as stated: loading is not set to false while the requests of the
\* attempt that set it to true, the latest one, are both pending or only
\* one of them has succeeded.
C11_LoadingUntilSetterSettles ==
    [][(loading /\ ~loading') => JointlySettled(Len(attempts))]_vars

\* C11: loading is set to false only in the continuation of an attempt
\* whose own two requests are both answered or one of which has failed.
C11_LoadingUntilSomeAttemptSettles ==
    [][(loading /\ ~loading') =>
          \E i \in 1..Len(attempts) :
              Pending(i) /\ attempts'[i].done # "pending" /\ JointlySettled(i)]_vars

\* the only attempt left Loading after one request succeeded and the other failed
C11_Witness ==
    /\ Len(attempts) = 1
    /\ attempts[1].w = "ok" /\ attempts[1].f = "fail"
    /\ ~loading

\* C12: no request token guards the result of an attempt: every attempt
\* whose requests both succeed stores its data in now, days and lastCity,
\* also when a later attempt has completed before it.
C12_EverySuccessIsApplied ==
    [][\A i \in 1..Len(attempts) :
          SucceedsNow(i) =>
             /\ now' = WeatherData(i, attempts[i].city, attempts[i].unit)
             /\ days' = buildDaily(attempts'[i].fdata.list)
             /\ lastCity' = attempts[i].city]_vars

\* the second attempt, for another city, was applied first and the first
\* attempt afterwards: the data on display are those of the earlier attempt
C12_Witness ==
    /\ Len(attempts) = 2
    /\ Succeeded(1) /\ Succeeded(2)
    /\ attempts[1].city # attempts[2].city
    /\ now.resp = 1 /\ now.name = attempts[1].city
    /\ days = buildDaily(attempts[1].fdata.list)
    /\ days # buildDaily(attempts[2].fdata.list)
    /\ lastCity = attempts[1].city

\* C13: the number of requests issued is always twice the number of fetch
\* attempts started: two per attempt, none again after a failure.
C13_TwoRequestsPerAttempt == issued = 2 * Len(attempts)

\* a failed attempt and a later one: four requests
C13_Witness ==
    /\ Len(attempts) = 2
    /\ attempts[1].done = "error" /\ attempts[1].f = "fail"
    /\ issued = 4

\* C14: every step that starts an attempt, and so sets loading to true,
\* leaves errorMsg empty.
C14_LoadingClearsError ==
    [][(Len(attempts') > Len(attempts) \/ (~loading /\ loading'))
          => loading' /\ errorMsg' = ""]_vars

\* an attempt started after an earlier one had ended in Error
C14_Witness ==
    /\ Len(attempts) = 2
    /\ attempts[1].done = "error" /\ ~attempts[2].overlapped
    /\ Pending(2) /\ attempts[2].w = "pending" /\ attempts[2].f = "pending"
    /\ loading /\ errorMsg = "" /\ now = Null

\* C15: if every request is answered in the end, every attempt in flight
\* ends in Success or Error, loading becomes false again, and Submit stays
\* possible throughout.
C15_LoadingEnds ==
    /\ \A i \in 1..MaxAttempts :
          (i <= Len(attempts) /\ Pending(i))
             ~> (i <= Len(attempts) /\ attempts[i].done \in {"success", "error"})
    /\ loading ~> ~loading
    /\ [](ENABLED Submit)

\* an attempt ended in Error, a later one is in flight
C15_Witness ==
    /\ Len(attempts) = 2
    /\ attempts[1].done = "error" /\ attempts[1].w = "fail"
    /\ Pending(2) /\ attempts[2].f = "ok"
    /\ loading

NeverOverlapped == \A i \in 1..Len(attempts) : ~attempts[i].overlapped

\* C16 as stated: in every reachable state a non-empty errorMsg implies
\* now = null and days = [].
C16_ErrorExcludesData ==
    errorMsg # "" => now = Null /\ days = <<>>

\* C16: in every state reached without two attempts overlapping, a
\* non-empty errorMsg implies now = null and days = [].
C16_ErrorExcludesDataUnlessOverlap ==
    NeverOverlapped => (errorMsg # "" => now = Null /\ days = <<>>)

\* data were on display, then an attempt started afterwards failed
C16_Witness ==
    /\ Len(attempts) = 2 /\ NeverOverlapped
    /\ Succeeded(1) /\ attempts[2].done = "error"
    /\ errorMsg # "" /\ now = Null /\ days = <<>>

\* C17 as stated: whenever no attempt is in flight and now is set, the
\* units under which now and days were fetched are the current units.
C17_DisplayedUnitsAreCurrent ==
    (~AnyPending /\ now # Null) => now.units = units

\* C17: in every state reached without two attempts overlapping, whenever
\* no attempt is in flight and now is set, the units under which now and
\* days were fetched are the current units.
C17_DisplayedUnitsAreCurrentUnlessOverlap ==
    (NeverOverlapped /\ ~AnyPending /\ now # Null) => now.units = units

\* units were toggled twice, each refetch completing before the next step
C17_Witness ==
    /\ Len(attempts) = 3 /\ NeverOverlapped /\ ~AnyPending
    /\ attempts[2].unit = "imperial" /\ Succeeded(2)
    /\ Succeeded(3) /\ now.resp = 3 /\ now.units = "metric" /\ units = "metric"

\* C18 as stated: loading is true whenever an attempt is in flight.
C18_LoadingWhileInFlight ==
    AnyPending => loading

\* C18: loading is true whenever an attempt that no other attempt has
\* overlapped is in flight.
C18_LoadingWhileAloneInFlight ==
    \A i \in 1..Len(attempts) : (Pending(i) /\ ~attempts[i].overlapped) => loading

\* one of the two requests is answered, the attempt is still in flight
C18_Witness ==
    /\ Len(attempts) = 1 /\ Pending(1)
    /\ attempts[1].w = "ok" /\ attempts[1].f = "pending"
    /\ loading

\* C19: units change only while now is set, so units = imperial implies
\* a non-empty lastCity, and every change of units starts a refetch.
C19_ToggleNeedsData ==
    /\ [](units = "imperial" => lastCity # <<>>)
    /\ [][units' # units =>
             /\ now # Null /\ lastCity # <<>>
             /\ Len(attempts') = Len(attempts) + 1
             /\ issued' = issued + 2]_vars

\* units were toggled and the refetch failed
C19_Witness ==
    /\ units = "imperial"
    /\ Len(attempts) = 2 /\ Succeeded(1) /\ attempts[2].done = "error"
    /\ attempts[2].unit = "imperial"
    /\ now = Null /\ lastCity = attempts[1].city

-----------------------------------------------------------------------------
(* Properties of buildDaily *)

DatesIn(l) == {DateOf(l[k]) : k \in 1..Len(l)}

\* C6: the result has at most 5 entries and strictly increasing dates.
C6_AtMostFiveIncreasing ==
    /\ Len(daily) <= 5
    /\ \A k \in 1..(Len(daily) - 1) : daily[k].date < daily[k + 1].date

\* six dates given latest first: five summaries
C6_Witness ==
    /\ Cardinality(DatesIn(list)) = 6
    /\ DateOf(list[1]) = 6 /\ DateOf(list[Len(list)]) = 1
    /\ Len(daily) = 5

\* the k-th sample of the date d, in input order, as an index of l
Positions(l, d) == {k \in 1..Len(l) : DateOf(l[k]) = d}

\* the sample of date d closest to noon, the first of them in input order
Representative(l, d) ==
    LET dist(k) == Abs(HoursOf(l[k]) - 12)
    IN  l[CHOOSE k \in Positions(l, d) :
              \A m \in Positions(l, d) :
                  dist(k) < dist(m) \/ (dist(k) = dist(m) /\ k <= m)]

\* C7: icon and condition of each summary are those of the sample of its
\* date whose hour is closest to 12, the first in input order among equals.
C7_RepresentativeClosestToNoon ==
    \A k \in 1..Len(daily) :
        /\ daily[k].icon = Representative(list, daily[k].date).weather.icon
        /\ daily[k].desc = Representative(list, daily[k].date).weather.main

\* 10:00 listed before 14:00 on one date, with different conditions
C7_Witness ==
    /\ Len(list) = 2
    /\ list[1].dt_txt = <<1, 10>> /\ list[1].weather = Rain
    /\ list[2].dt_txt = <<1, 14>> /\ list[2].weather = Clear
    /\ daily[1].icon = "10d"

\* r is x, a value in tenths, rounded to the nearest integer, halves upwards
IsRounded(r, x) == 10 * r - 5 <= x /\ x < 10 * r + 5

\* C8: min is the rounded minimum of temp_min and max the rounded maximum
\* of temp_max over all samples of the date.
C8_MinMaxOverGroup ==
    \A k \in 1..Len(daily) :
        LET pos == Positions(list, daily[k].date)
        IN  /\ \E m \in pos :
                  /\ \A n \in pos : list[m].temp_min <= list[n].temp_min
                  /\ IsRounded(daily[k].min, list[m].temp_min)
            /\ \E m \in pos :
                  /\ \A n \in pos : list[m].temp_max >= list[n].temp_max
                  /\ IsRounded(daily[k].max, list[m].temp_max)

\* the sample closest to noon has neither the lowest minimum nor the
\* highest maximum of its date
C8_Witness ==
    /\ Len(list) = 3 /\ DatesIn(list) = {1}
    /\ list[1].dt_txt = <<1, 12>> /\ list[1].temp_min = 96 /\ list[1].temp_max = 104
    /\ list[2].temp_min = -15 /\ list[3].temp_max = 125
    /\ daily[1].min = -1 /\ daily[1].max = 13

\* the chronologically earliest min(5, D) of the D dates of l
EarliestDates(l) ==
    {d \in DatesIn(l) : Cardinality({e \in DatesIn(l) : e < d}) < 5}

\* C9: the result holds exactly one summary for each of the earliest
\* min(5, D) dates of the input, whatever the order of the samples, and an
\* empty input gives an empty result.
C9_EarliestDatesOnce ==
    /\ {daily[k].date : k \in 1..Len(daily)} = EarliestDates(list)
    /\ Len(daily) = Cardinality(EarliestDates(list))
    /\ list = <<>> => daily = <<>>

\* six dates, the latest one given first: it is the one left out
C9_Witness ==
    /\ Len(list) = 6 /\ Cardinality(DatesIn(list)) = 6
    /\ DateOf(list[1]) = 6 /\ DateOf(list[2]) = 3
    /\ {daily[k].date : k \in 1..Len(daily)} = 1..5

====
